---------------------------- MODULE Spec2Model ----------------------------
(***************************************************************************)
(* Model of src/split.py: the difficulty pipeline of the chess knowledge   *)
(* splitter.  A source move tree is walked (analyze_move_difficulty), each *)
(* move is scored (calculate_difficulty_score), the scored moves are       *)
(* stratified into eight levels (categorize_moves_by_difficulty) and one   *)
(* tree per level is rebuilt (create_level_knowledge_tree).                *)
(*                                                                         *)
(* Representation.                                                         *)
(*  - A Python float is an IEEE 754 double [s |-> sign, m |-> significand,  *)
(*    e |-> exponent] of value s * m * 2^e, where s is -1, 0 or 1 and m is *)
(*    an odd natural below 2^53 (zero is [s |-> 0, m |-> <<>>, e |-> 0]),  *)
(*    so that equal doubles are equal records.  Every operation computes   *)
(*    the exact result and rounds it to the nearest double, ties to even,  *)
(*    as the hardware does: two scores are equal, or ordered, in the model *)
(*    exactly when they are in the program.  Significands are naturals of  *)
(*    any size, written as sequences of 15-bit limbs, least significant    *)
(*    first.  The exponent is not bounded (no value of the program comes   *)
(*    near overflow or the subnormal range), and -0.0 is not told from 0.0 *)
(*    (the program cannot tell them apart either).                         *)
(*  - A Python str is a sequence of one-character strings, so that "in",   *)
(*    split, lower and isalpha are computed and not assumed.               *)
(*  - A JSON value that may be of any type (a position) is a tagged record *)
(*    [kind |-> "none" | "str" | "int", val |-> ...].                      *)
(*  - A dict with optional keys is a record; a key is present iff it is in *)
(*    the DOMAIN.  The insertion-ordered dict 'moves' is a sequence of     *)
(*    [key, node] entries.                                                 *)
(*  - Python objects live in a heap: a sequence of node records, a node's  *)
(*    identity is its index, so that two references to one dict are one    *)
(*    index.                                                               *)
(***************************************************************************)
EXTENDS Integers, Sequences, FiniteSets, TLC

VARIABLES
    pc,                     \* position in main() / in the harness of a pure function
    heap,                   \* all node dicts: the source tree and the level trees
    moves_with_difficulty,  \* main(): the walker's flat list
    difficulty_levels,      \* main(): the eight levels
    level,                  \* save_difficulty_levels: the loop index i (1-based)
    level_trees,            \* save_difficulty_levels: level_tree of each level, 0 if skipped
    args,                   \* the arguments of the pure function under check
    result                  \* its return value

vars == <<pc, heap, moves_with_difficulty, difficulty_levels, level, level_trees,
          args, result>>

(***************************************************************************)
(* Naturals of any size: little-endian sequences of 15-bit limbs           *)
(***************************************************************************)
Abs(x) == IF x < 0 THEN -x ELSE x
Sign(i) == IF i < 0 THEN -1 ELSE IF i = 0 THEN 0 ELSE 1

LimbBits == 15
Base == 2^LimbBits

\* x without its leading (most significant) zero limbs
RECURSIVE BTrim(_)
BTrim(x) == IF x # <<>> /\ x[Len(x)] = 0 THEN BTrim(SubSeq(x, 1, Len(x) - 1)) ELSE x

RECURSIVE BFromInt(_)
BFromInt(i) == IF i = 0 THEN <<>> ELSE <<i % Base>> \o BFromInt(i \div Base)

\* x + y
RECURSIVE BAddFrom(_, _, _, _)
BAddFrom(x, y, i, carry) ==
    LET xd == IF i <= Len(x) THEN x[i] ELSE 0
        yd == IF i <= Len(y) THEN y[i] ELSE 0
    IN  IF i > Len(x) /\ i > Len(y) THEN BFromInt(carry)
        ELSE <<(xd + yd + carry) % Base>>
               \o BAddFrom(x, y, i + 1, (xd + yd + carry) \div Base)
BAdd(x, y) == BAddFrom(x, y, 1, 0)

\* x - y, for x >= y
RECURSIVE BSubFrom(_, _, _, _)
BSubFrom(x, y, i, borrow) ==
    LET yd == IF i <= Len(y) THEN y[i] ELSE 0
        d == x[i] - yd - borrow
    IN  IF i > Len(x) THEN <<>>
        ELSE <<d % Base>> \o BSubFrom(x, y, i + 1, IF d < 0 THEN 1 ELSE 0)
BSub(x, y) == BTrim(BSubFrom(x, y, 1, 0))

\* -1, 0 or 1 as x <, =, > y
RECURSIVE BCmpFrom(_, _, _)
BCmpFrom(x, y, i) ==
    IF i = 0 THEN 0
    ELSE IF x[i] # y[i] THEN (IF x[i] < y[i] THEN -1 ELSE 1)
    ELSE BCmpFrom(x, y, i - 1)
BCmp(x, y) ==
    IF Len(x) # Len(y) THEN (IF Len(x) < Len(y) THEN -1 ELSE 1)
    ELSE BCmpFrom(x, y, Len(x))

\* x * m, for 0 <= m < Base
RECURSIVE BMulFrom(_, _, _, _)
BMulFrom(x, m, i, carry) ==
    IF i > Len(x) THEN BFromInt(carry)
    ELSE <<(x[i] * m + carry) % Base>>
           \o BMulFrom(x, m, i + 1, (x[i] * m + carry) \div Base)
BMulSmall(x, m) == IF m = 0 THEN <<>> ELSE BMulFrom(x, m, 1, 0)

\* x * Base^n
ZeroLimbs(n) == [i \in 1..n |-> 0]
BShiftLimbs(x, n) == IF x = <<>> THEN <<>> ELSE ZeroLimbs(n) \o x

\* x * y
RECURSIVE BMulAcc(_, _, _)
BMulAcc(x, y, i) ==
    IF i > Len(y) THEN <<>>
    ELSE BAdd(BShiftLimbs(BMulSmall(x, y[i]), i - 1), BMulAcc(x, y, i + 1))
BMul(x, y) == BMulAcc(x, y, 1)

\* x * 2^k
BShl(x, k) == BShiftLimbs(BMulSmall(x, 2^(k % LimbBits)), k \div LimbBits)

\* x div m, for 0 < m < Base: the limbs from the top, carrying the remainder
RECURSIVE BDivFrom(_, _, _, _)
BDivFrom(x, m, i, rem) ==
    IF i = 0 THEN <<>>
    ELSE BDivFrom(x, m, i - 1, (rem * Base + x[i]) % m)
           \o <<(rem * Base + x[i]) \div m>>
BDivSmall(x, m) == BTrim(BDivFrom(x, m, Len(x), 0))

\* x div 2^k
BShr(x, k) ==
    IF k \div LimbBits >= Len(x) THEN <<>>
    ELSE BDivSmall(SubSeq(x, (k \div LimbBits) + 1, Len(x)), 2^(k % LimbBits))

BIsOdd(x) == x # <<>> /\ x[1] % 2 = 1

RECURSIVE IntBitLen(_)
IntBitLen(i) == IF i = 0 THEN 0 ELSE 1 + IntBitLen(i \div 2)

\* The number of binary digits of x
BitLen(x) == IF x = <<>> THEN 0 ELSE LimbBits * (Len(x) - 1) + IntBitLen(x[Len(x)])

\* The largest t < Base with t * y <= r, found bit by bit from the top
RECURSIVE QDigit(_, _, _, _)
QDigit(r, y, t, bit) ==
    IF bit = 0 THEN t
    ELSE IF BCmp(BMulSmall(y, t + bit), r) <= 0 THEN QDigit(r, y, t + bit, bit \div 2)
    ELSE QDigit(r, y, t, bit \div 2)

\* [q |-> x div y, r |-> x mod y], for y > 0: long division, a limb at a time
RECURSIVE BDivMod(_, _)
BDivMod(x, y) ==
    IF x = <<>> THEN [q |-> <<>>, r |-> <<>>]
    ELSE LET hi == BDivMod(Tail(x), y)
             r2 == BTrim(<<x[1]>> \o hi.r)
             t == IF BCmp(r2, y) < 0 THEN 0 ELSE QDigit(r2, y, 0, Base \div 2)
         IN  [q |-> BTrim(<<t>> \o hi.q), r |-> BSub(r2, BMulSmall(y, t))]

(***************************************************************************)
(* IEEE 754 binary64 arithmetic, rounding to nearest, ties to even         *)
(***************************************************************************)
\* The number of significant binary digits of a double
Precision == 53

FZero == [s |-> 0, m |-> <<>>, e |-> 0]

\* The number of zero limbs at the low end of x # 0
RECURSIVE LowZeroLimbs(_, _)
LowZeroLimbs(x, i) == IF x[i] # 0 THEN i - 1 ELSE LowZeroLimbs(x, i + 1)

\* The number of zero bits at the low end of i # 0
RECURSIVE IntLowZeroBits(_)
IntLowZeroBits(i) == IF i % 2 = 1 THEN 0 ELSE 1 + IntLowZeroBits(i \div 2)

\* s * m * 2^e with m made odd
Canon(s, m, e) ==
    IF m = <<>> THEN FZero
    ELSE LET z == LowZeroLimbs(m, 1)
             t == IntLowZeroBits(m[z + 1])
         IN  [s |-> s, m |-> BShr(m, LimbBits * z + t), e |-> e + LimbBits * z + t]

\* The double nearest to s * n * 2^e, the one with the even significand when
\* two are equally near
Round(s, n, e) ==
    IF BitLen(n) <= Precision THEN Canon(s, n, e)
    ELSE LET k == BitLen(n) - Precision
             q == BShr(n, k)
             r == BSub(n, BShl(q, k))
             c == BCmp(r, BShl(<<1>>, k - 1))
             up == c > 0 \/ (c = 0 /\ BIsOdd(q))
         IN  Canon(s, IF up THEN BAdd(q, <<1>>) ELSE q, e + k)

\* float(i)
FOfInt(i) == Round(Sign(i), BFromInt(Abs(i)), 0)

FOne == FOfInt(1)

FNeg(a) == CHOOSE r \in {[x EXCEPT !.s = -x.s] : x \in {a}} : TRUE
FAbs(a) == CHOOSE r \in {[x EXCEPT !.s = Abs(x.s)] : x \in {a}} : TRUE

\* -1, 0 or 1 as |a| <, =, > |b|, for a, b # 0
MagCmp(a, b) ==
    LET e == IF a.e < b.e THEN a.e ELSE b.e
    IN  IF BitLen(a.m) + a.e # BitLen(b.m) + b.e
        THEN (IF BitLen(a.m) + a.e < BitLen(b.m) + b.e THEN -1 ELSE 1)
        ELSE BCmp(BShl(a.m, a.e - e), BShl(b.m, b.e - e))

\* a < b, of two given doubles
LessOf(a, b) ==
    IF a.s # b.s THEN a.s < b.s
    ELSE IF a.s = 0 THEN FALSE
    ELSE IF a.s = 1 THEN MagCmp(a, b) < 0
    ELSE MagCmp(a, b) > 0

\* a < b.  Here and below the operands are evaluated first, each once, and
\* the operation is applied to their values.
FLess(a, b) == \E x \in {a}, y \in {b} : LessOf(x, y)
FLeq(a, b) == ~FLess(b, a)
\* Python min(a, b) and max(a, b)
FMin(a, b) == CHOOSE r \in {IF LessOf(y, x) THEN y ELSE x : x \in {a}, y \in {b}} : TRUE
FMax(a, b) == CHOOSE r \in {IF LessOf(x, y) THEN y ELSE x : x \in {a}, y \in {b}} : TRUE

\* a + b, of two given doubles
SumOf(a, b) ==
    IF a.s = 0 THEN b
    ELSE IF b.s = 0 THEN a
    ELSE LET e == IF a.e < b.e THEN a.e ELSE b.e
             x == BShl(a.m, a.e - e)
             y == BShl(b.m, b.e - e)
             c == BCmp(x, y)
         IN  IF a.s = b.s THEN Round(a.s, BAdd(x, y), e)
             ELSE IF c = 0 THEN FZero
             ELSE IF c > 0 THEN Round(a.s, BSub(x, y), e)
             ELSE Round(b.s, BSub(y, x), e)

\* a + b
FAdd(a, b) == CHOOSE r \in {SumOf(x, y) : x \in {a}, y \in {b}} : TRUE

\* a - b
FSub(a, b) == FAdd(a, FNeg(b))

\* a * b, of two given doubles
ProductOf(a, b) ==
    IF a.s = 0 \/ b.s = 0 THEN FZero
    ELSE Round(a.s * b.s, BMul(a.m, b.m), a.e + b.e)

\* a * b
FMul(a, b) == CHOOSE r \in {ProductOf(x, y) : x \in {a}, y \in {b}} : TRUE

\* a / b of two given doubles, for b # 0: the quotient to 56 binary digits or more, and one more
\* digit that is 1 iff the division left a remainder
QuotientOf(a, b) ==
    IF a.s = 0 THEN FZero
    ELSE LET k == BitLen(b.m) + Precision + 3 - BitLen(a.m)
             d == BDivMod(BShl(a.m, k), b.m)
             n == BAdd(BMulSmall(d.q, 2), IF d.r = <<>> THEN <<>> ELSE <<1>>)
         IN  Round(a.s * b.s, n, a.e - b.e - k - 1)

\* a / b
FDiv(a, b) == CHOOSE r \in {QuotientOf(x, y) : x \in {a}, y \in {b}} : TRUE

\* The float literal written n/d in decimal (0.7 is FLit(7, 10)), and the
\* quotient n / d of two ints: both are the double nearest to the fraction
FLit(n, d) == FDiv(FOfInt(n), FOfInt(d))

\* The float literals of the program
Lit_0_03 == FLit(3, 100)
Lit_0_05 == FLit(5, 100)
Lit_0_2 == FLit(2, 10)
Lit_0_3 == FLit(3, 10)
Lit_0_4 == FLit(4, 10)
Lit_0_5 == FLit(1, 2)
Lit_0_6 == FLit(6, 10)
Lit_0_7 == FLit(7, 10)
Lit_0_8 == FLit(8, 10)
Lit_0_9 == FLit(9, 10)
Lit_0_95 == FLit(95, 100)
Lit_1_05 == FLit(105, 100)
Lit_1_1 == FLit(11, 10)
Lit_1_15 == FLit(115, 100)
Lit_1_2 == FLit(12, 10)
Lit_20 == FOfInt(20)

(***************************************************************************)
(* Python values                                                           *)
(***************************************************************************)
None == [kind |-> "none"]
Str(s) == [kind |-> "str", val |-> s]
Int_(i) == [kind |-> "int", val |-> i]

\* Python truthiness: None, "" and 0 are false.
Truthy(v) ==
    CASE v.kind = "none" -> FALSE
      [] v.kind = "str" -> v.val # <<>>
      [] v.kind = "int" -> v.val # 0

\* d.get(key, default) of a dict with optional keys
Get(d, key, default) == IF key \in DOMAIN d THEN d[key] ELSE default

EmptyDict == [x \in {} |-> 0]

UpperCase == <<"A","B","C","D","E","F","G","H","I","J","K","L","M",
               "N","O","P","Q","R","S","T","U","V","W","X","Y","Z">>
LowerCase == <<"a","b","c","d","e","f","g","h","i","j","k","l","m",
               "n","o","p","q","r","s","t","u","v","w","x","y","z">>

\* str.isalpha of one character
IsAlpha(c) == \E i \in 1..26 : c = UpperCase[i] \/ c = LowerCase[i]

\* str.lower of one character and of a string
LowerChar(c) ==
    IF \E i \in 1..26 : c = UpperCase[i]
    THEN LowerCase[CHOOSE i \in 1..26 : c = UpperCase[i]]
    ELSE c
Lower(s) == [i \in 1..Len(s) |-> LowerChar(s[i])]

\* sub in s, of two strings
Contains(sub, s) ==
    \E i \in 1..(Len(s) - Len(sub) + 1) : SubSeq(s, i, i + Len(sub) - 1) = sub

\* position.split(' ')[0]
FirstField(s) ==
    IF \E i \in 1..Len(s) : s[i] = " "
    THEN SubSeq(s, 1, (CHOOSE i \in 1..Len(s) :
                          s[i] = " " /\ \A j \in 1..(i - 1) : s[j] # " ") - 1)
    ELSE s

(***************************************************************************)
(* Position features                                                       *)
(***************************************************************************)
parse_fen_from_position(position) ==
    IF position.kind = "str" /\ (\E i \in 1..Len(position.val) : position.val[i] = " ")
    THEN Str(FirstField(position.val))
    ELSE position

PieceLetters == {"P", "N", "B", "R", "Q", "K", "p", "n", "b", "r", "q", "k"}

count_pieces(fen) ==
    IF ~Truthy(fen) \/ fen.kind # "str"
    THEN [c \in PieceLetters |-> 0]
    ELSE [c \in PieceLetters |-> Cardinality({i \in 1..Len(fen.val) : fen.val[i] = c})]

WhiteMaterial(piece_counts) ==
    piece_counts["P"] * 1 + piece_counts["N"] * 3 + piece_counts["B"] * 3
        + piece_counts["R"] * 5 + piece_counts["Q"] * 9

BlackMaterial(piece_counts) ==
    piece_counts["p"] * 1 + piece_counts["n"] * 3 + piece_counts["b"] * 3
        + piece_counts["r"] * 5 + piece_counts["q"] * 9

\* The progress of the "late opening" branch: min(1.0, (40 - total_material) / 10)
LateOpeningProgress(total_material) == FMin(FOne, FLit(40 - total_material, 10))

determine_game_phase(piece_counts) ==
    LET total_material == WhiteMaterial(piece_counts) + BlackMaterial(piece_counts)
        total_pieces ==
            piece_counts["N"] + piece_counts["B"] + piece_counts["R"] + piece_counts["Q"]
          + piece_counts["n"] + piece_counts["b"] + piece_counts["r"] + piece_counts["q"]
    IN  IF total_pieces >= 12 /\ piece_counts["Q"] >= 1 /\ piece_counts["q"] >= 1
        THEN <<"opening", FZero>>
        ELSE IF total_material >= 30
        THEN <<"opening", LateOpeningProgress(total_material)>>
        ELSE IF total_material >= 20
        THEN <<"middlegame", FLit(30 - total_material, 10)>>
        ELSE IF total_material >= 10
        THEN <<"endgame", FLit(20 - total_material, 10)>>
        ELSE <<"endgame", FOne>>

calculate_position_complexity(piece_counts) ==
    LET minor_pieces == piece_counts["N"] + piece_counts["B"]
                      + piece_counts["n"] + piece_counts["b"]
        major_pieces == piece_counts["R"] + piece_counts["Q"]
                      + piece_counts["r"] + piece_counts["q"]
        pawns == piece_counts["P"] + piece_counts["p"]
        \* (minor * 0.7 + major * 1.2 + pawns * 0.4) / 20
        piece_complexity ==
            FDiv(FAdd(FAdd(FMul(FOfInt(minor_pieces), Lit_0_7),
                           FMul(FOfInt(major_pieces), Lit_1_2)),
                      FMul(FOfInt(pawns), Lit_0_4)),
                 Lit_20)
        material_imbalance ==
            FLit(Abs(WhiteMaterial(piece_counts) - BlackMaterial(piece_counts)), 32)
        queen_factor == IF piece_counts["Q"] > 0 \/ piece_counts["q"] > 0
                        THEN Lit_0_2 ELSE FZero
        \* piece_complexity * 0.6 + (1 - material_imbalance) * 0.2 + queen_factor
        complexity ==
            FAdd(FAdd(FMul(piece_complexity, Lit_0_6),
                      FMul(FSub(FOne, material_imbalance), Lit_0_2)),
                 queen_factor)
    IN  FMin(FOne, complexity)

(***************************************************************************)
(* Difficulty scorer                                                       *)
(***************************************************************************)
calculate_win_rate(stats) ==
    LET wins == Get(stats, "wins", 0)
        losses == Get(stats, "losses", 0)
        draws == Get(stats, "draws", 0)
        total == wins + losses + draws
    IN  IF total = 0 THEN Lit_0_5
        \* (wins + (draws * 0.5)) / total
        ELSE FDiv(FAdd(FOfInt(wins), FMul(FOfInt(draws), Lit_0_5)), FOfInt(total))

\* <<is_theory, theory_strength>>
is_opening_theory(move_sequence, depth) ==
    IF depth <= 10
    THEN <<TRUE, FMax(FZero, FSub(FOne, FLit(depth, 10)))>>
    ELSE <<FALSE, FZero>>

\* sum(1 for c in move_sequence[-1] if c.isalpha())
AlphaCount(move) == Cardinality({i \in 1..Len(move) : IsAlpha(move[i])})

\* Phase-specific adjustments of the running difficulty
PhaseAdjust(difficulty, game_phase, times_played, depth, position_complexity, move_sequence, is_capture, is_check) ==
    LET phase_name == game_phase[1]
        phase_progress == game_phase[2]
    IN  IF phase_name = "opening"
        THEN LET theory == is_opening_theory(move_sequence, depth)
                 theory_factor == FAdd(Lit_0_7, FMul(Lit_0_3, theory[2]))
                 d1 == FMul(difficulty, theory_factor)
             IN  IF theory[1]
                 THEN (IF times_played > 10 THEN FMul(d1, Lit_0_9) ELSE d1)
                 ELSE difficulty
        ELSE IF phase_name = "middlegame"
        THEN LET d1 == FMul(difficulty, Lit_1_1)
             IN  IF is_capture \/ is_check THEN FMul(d1, Lit_1_15) ELSE d1
        ELSE IF phase_name = "endgame"
        THEN IF FLess(Lit_0_7, phase_progress)
             THEN IF AlphaCount(move_sequence[Len(move_sequence)]) <= 3
                  THEN FMul(difficulty,
                            FAdd(Lit_0_9, FMul(position_complexity, Lit_0_5)))
                  ELSE FMul(difficulty, Lit_1_2)
             ELSE difficulty
        ELSE difficulty

\* frequency_factor = 1.0 - (0.2 / (1 + 0.05 * times_played)), applied only
\* when times_played > 0
FrequencyFactor(times_played) ==
    FSub(FOne, FDiv(Lit_0_2,
                    FAdd(FOne, FMul(Lit_0_05, FOfInt(times_played)))))

\* A win-rate factor that ignores the win rate (0.9 throughout); not the code's
WinRateFactor_Flat(win_rate) == Lit_0_9

\* 0.8 + 0.2 * win_rate_complexity
WinRateFactor(win_rate) ==
    LET \* 1.0 - abs(win_rate - 0.5) * 0.4
        win_rate_complexity ==
            FSub(FOne, FMul(FAbs(FSub(win_rate, Lit_0_5)), Lit_0_4))
    IN  FAdd(Lit_0_8, FMul(Lit_0_2, win_rate_complexity))

\* A clamp without the upper cut; not the code's
Clamp_NoUpper(difficulty) == FMax(FZero, difficulty)

\* max(0.0, min(1.0, difficulty))
Clamp(difficulty) == FMax(FZero, FMin(FOne, difficulty))

\* difficulty *= (0.7 + 0.6 * position_complexity)
ComplexityAdjust(difficulty, position_complexity) == FMul(difficulty, FAdd(Lit_0_7, FMul(Lit_0_6, position_complexity)))

\* depth_factor = 1.0 + (depth * 0.03); difficulty *= depth_factor
DepthAdjust(difficulty, depth) == FMul(difficulty, FAdd(FOne, FMul(FOfInt(depth), Lit_0_03)))

\* if times_played > 0: difficulty *= frequency_factor
FrequencyAdjust(difficulty, times_played) == IF times_played > 0 THEN FMul(difficulty, FrequencyFactor(times_played)) ELSE difficulty

\* difficulty *= (0.8 + 0.2 * win_rate_complexity)
WinRateAdjust(difficulty, win_rate) == FMul(difficulty, WinRateFactor(win_rate))

\* if has_children: difficulty *= 1.05
ChildrenAdjust(difficulty, has_children) == IF has_children THEN FMul(difficulty, Lit_1_05) ELSE difficulty

\* if is_capture or is_check: difficulty *= 1.1 if depth > 2 else 0.95
CalculationAdjust(difficulty, depth, is_capture, is_check) ==
    IF is_capture \/ is_check
    THEN FMul(difficulty, IF depth > 2 THEN Lit_1_1 ELSE Lit_0_95)
    ELSE difficulty

\* difficulty = (rating - 800) / 2000
BaseDifficulty(rating) == FLit(rating - 800, 2000)

calculate_difficulty_score(rating, times_played, win_rate, depth, has_children, game_phase, position_complexity, move_sequence, is_capture, is_check) ==
    Clamp(CalculationAdjust(
            ChildrenAdjust(
              WinRateAdjust(
                FrequencyAdjust(
                  DepthAdjust(
                    ComplexityAdjust(
                      PhaseAdjust(BaseDifficulty(rating), game_phase, times_played, depth,
                                  position_complexity, move_sequence, is_capture, is_check),
                      position_complexity),
                    depth),
                  times_played),
                win_rate),
              has_children),
            depth, is_capture, is_check))

(***************************************************************************)
(* Tree walker                                                             *)
(***************************************************************************)
\* node.get('moves', {}) as the ordered list of its items
NodeMoves(nd) == Get(nd, "moves", <<>>)

RECURSIVE count_moves(_, _)
count_moves(h, node) ==
    LET entries == NodeMoves(h[node])
        RECURSIVE below(_)
        below(i) == IF i > Len(entries) THEN 0
                    ELSE count_moves(h, entries[i].node) + below(i + 1)
    IN  Len(entries) + below(1)

\* 'position' of the node, else 'position' of its stats, else None
OwnPosition(nd) ==
    IF "position" \in DOMAIN nd THEN nd.position
    ELSE IF "stats" \in DOMAIN nd /\ "position" \in DOMAIN nd.stats
    THEN nd.stats.position
    ELSE None

\* The position the walker hands to the recursive call on move_data
next_position(move_data, position_info) == OwnPosition(move_data)

DefaultPhase == <<"unknown", Lit_0_5>>
DefaultComplexity == Lit_0_5

\* <<game_phase, position_complexity>> of a node whose position_info is given
PositionFeatures(position_info) ==
    LET fen == IF Truthy(position_info)
               THEN parse_fen_from_position(position_info) ELSE None
    IN  IF Truthy(fen)
        THEN <<determine_game_phase(count_pieces(fen)),
               calculate_position_complexity(count_pieces(fen))>>
        ELSE <<DefaultPhase, DefaultComplexity>>

Capture == <<"c", "a", "p", "t", "u", "r", "e">>
Check == <<"c", "h", "e", "c", "k">>

\* 'capture' in stats.get('type', '').lower() if 'type' in stats else False
TypeHas(stats, word) ==
    IF "type" \in DOMAIN stats THEN Contains(word, Lower(stats.type)) ELSE FALSE

\* A recursion that does not advance the depth; not the code's
child_depth_same(current_depth) == current_depth

\* current_depth + 1
child_depth(current_depth) == current_depth + 1

child_path(path, move_notation) == Append(path, move_notation)

\* The ScoredMove dict appended for one move
ScoredMove(h, move_notation, move_data, current_depth, path, game_phase, position_complexity, move_sequence) ==
    LET md == h[move_data]
        stats == Get(md, "stats", EmptyDict)
    IN  [move |-> move_notation,
         path |-> path,
         difficulty |->
             calculate_difficulty_score(
                 Get(stats, "rating", 1200),
                 Get(stats, "timesPlayed", 0),
                 calculate_win_rate(stats),
                 current_depth,
                 NodeMoves(md) # <<>>,
                 game_phase,
                 position_complexity,
                 Append(move_sequence, move_notation),
                 TypeHas(stats, Capture),
                 TypeHas(stats, Check)),
         rating |-> Get(stats, "rating", 1200),
         times_played |-> Get(stats, "timesPlayed", 0),
         win_rate |-> calculate_win_rate(stats),
         depth |-> current_depth,
         game_phase |-> game_phase[1],
         phase_progress |-> game_phase[2],
         position_complexity |-> position_complexity,
         move_data |-> move_data,
         move_sequence |-> Append(move_sequence, move_notation)]

RECURSIVE analyze_move_difficulty(_, _, _, _, _, _)
RECURSIVE AnalyzeMoves(_, _, _, _, _, _, _, _)

\* for move_notation, move_data in node['moves'].items(): entries i.. of the loop
AnalyzeMoves(h, entries, i, current_depth, path, position_info, features, move_sequence) ==
    IF i > Len(entries) THEN <<>>
    ELSE <<ScoredMove(h, entries[i].key, entries[i].node, current_depth, path,
                      features[1], features[2], move_sequence)>>
         \o analyze_move_difficulty(
                h, entries[i].node, child_depth(current_depth),
                child_path(path, entries[i].key),
                next_position(h[entries[i].node], position_info),
                Append(move_sequence, entries[i].key))
         \o AnalyzeMoves(h, entries, i + 1, current_depth, path, position_info,
                         features, move_sequence)

\* The body of analyze_move_difficulty once position_info is determined
AnalyzeNode(h, node, current_depth, path, position_info, move_sequence) ==
    AnalyzeMoves(h, NodeMoves(h[node]), 1, current_depth, path, position_info,
                 PositionFeatures(position_info), move_sequence)

analyze_move_difficulty(h, node, current_depth, path, position, move_sequence) ==
    AnalyzeNode(h, node, current_depth, path,
                IF Truthy(position) THEN position ELSE OwnPosition(h[node]),
                move_sequence)

(***************************************************************************)
(* Stratifier                                                              *)
(***************************************************************************)
\* x inserted into a sorted list in front of the elements of equal key:
\* one step of a sort that reverses ties; not the code's
RECURSIVE InsertFirst(_, _)
InsertFirst(x, s) ==
    IF s = <<>> THEN <<x>>
    ELSE IF FLeq(x.difficulty, s[1].difficulty) THEN <<x>> \o s
    ELSE <<s[1]>> \o InsertFirst(x, Tail(s))

\* x inserted into a sorted list behind every element that is not larger:
\* one step of a stable sort by key 'difficulty'
RECURSIVE InsertStable(_, _)
InsertStable(x, s) ==
    IF s = <<>> THEN <<x>>
    ELSE IF FLess(x.difficulty, s[1].difficulty) THEN <<x>> \o s
    ELSE <<s[1]>> \o InsertStable(x, Tail(s))

\* A sort by key 'difficulty' that reverses ties; not the code's
RECURSIVE sorted_unstable(_)
sorted_unstable(moves) ==
    IF moves = <<>> THEN <<>>
    ELSE InsertFirst(moves[Len(moves)], sorted_unstable(SubSeq(moves, 1, Len(moves) - 1)))

\* sorted(moves, key=lambda x: x['difficulty'])
RECURSIVE sorted(_)
sorted(moves) ==
    IF moves = <<>> THEN <<>>
    ELSE InsertStable(moves[Len(moves)], sorted(SubSeq(moves, 1, Len(moves) - 1)))

level_percentages == <<5, 10, 15, 20, 20, 15, 10, 5>>
num_levels == 8

\* A slice size rounded up instead of down; not the code's
moves_in_level_ceil(percentage, total_moves) == (percentage * total_moves + 99) \div 100

\* int((percentage / 100) * total_moves)
moves_in_level(percentage, total_moves) == (percentage * total_moves) \div 100

Min(a, b) == IF a < b THEN a ELSE b

\* start_idx on entry to the loop body of a level (0-based, as in the code)
RECURSIVE start_idx(_, _)
start_idx(lv, total_moves) ==
    IF lv = 1 THEN 0
    ELSE Min(start_idx(lv - 1, total_moves)
               + moves_in_level(level_percentages[lv - 1], total_moves),
             total_moves)

\* The moves left over behind the last slice, appended to the last level
remaining(sorted_moves, end) ==
    IF end < Len(sorted_moves)
    THEN SubSeq(sorted_moves, end + 1, Len(sorted_moves))
    ELSE <<>>

categorize_moves_by_difficulty(moves) ==
    LET sorted_moves == sorted(moves)
        total_moves == Len(sorted_moves)
        slice(lv) ==
            SubSeq(sorted_moves,
                   start_idx(lv, total_moves) + 1,
                   Min(start_idx(lv, total_moves)
                         + moves_in_level(level_percentages[lv], total_moves),
                       total_moves))
        end == Min(start_idx(num_levels, total_moves)
                     + moves_in_level(level_percentages[num_levels], total_moves),
                   total_moves)
    IN  IF total_moves = 0
        THEN [lv \in 1..num_levels |-> <<>>]
        ELSE [lv \in 1..num_levels |->
                 IF lv = num_levels
                 THEN slice(lv) \o remaining(sorted_moves, end)
                 ELSE slice(lv)]

(***************************************************************************)
(* Level tree builder                                                      *)
(***************************************************************************)
\* key in d, of the ordered dict 'moves'
HasKey(moves, key) == \E i \in 1..Len(moves) : moves[i].key = key

\* d[key]
Lookup(moves, key) == moves[CHOOSE i \in 1..Len(moves) : moves[i].key = key].node

\* An assignment that leaves an existing key alone (setdefault); not the code's
DictSet_KeepExisting(moves, key, node) ==
    IF HasKey(moves, key) THEN moves
    ELSE Append(moves, [key |-> key, node |-> node])

\* d[key] = node: an existing key keeps its place, a new key goes last
DictSet(moves, key, node) ==
    IF HasKey(moves, key)
    THEN [i \in 1..Len(moves) |->
             IF moves[i].key = key THEN [key |-> key, node |-> node] ELSE moves[i]]
    ELSE Append(moves, [key |-> key, node |-> node])

\* h with current_node['moves'][key] = node
SetMove(h, current_node, key, node) ==
    [h EXCEPT ![current_node].moves = DictSet(h[current_node].moves, key, node)]

NewRoot == [moves |-> <<>>, stats |-> [timesVisited |-> 0, firstSeen |-> 0]]
NewPathNode == [moves |-> <<>>, stats |-> [timesVisited |-> 0]]

\* What is attached under the move's key: the move's original dict
attached_data(move_info) == move_info.move_data

\* The walk along path[i..], creating the missing nodes:
\* [heap |-> the heap after it, node |-> current_node at its end]
RECURSIVE Navigate(_, _, _, _)
Navigate(h, current_node, path, i) ==
    IF i > Len(path) THEN [heap |-> h, node |-> current_node]
    ELSE IF HasKey(h[current_node].moves, path[i])
    THEN Navigate(h, Lookup(h[current_node].moves, path[i]), path, i + 1)
    ELSE Navigate(SetMove(Append(h, NewPathNode), current_node, path[i], Len(h) + 1),
                  Len(h) + 1, path, i + 1)

\* An iteration that attaches a fresh copy of the move's dict; not the code's
InsertMove_Copy(h, root, move_info) ==
    LET at == Navigate(h, root, move_info.path, 1)
        copied == Append(at.heap, at.heap[attached_data(move_info)])
    IN  SetMove(copied, at.node, move_info.move, Len(copied))

\* One iteration of the loop over level_moves
InsertMove(h, root, move_info) ==
    LET at == Navigate(h, root, move_info.path, 1)
    IN  SetMove(at.heap, at.node, move_info.move, attached_data(move_info))

RECURSIVE InsertMoves(_, _, _, _)
InsertMoves(h, root, level_moves, i) ==
    IF i > Len(level_moves) THEN h
    ELSE InsertMoves(InsertMove(h, root, level_moves[i]), root, level_moves, i + 1)

\* [heap |-> the heap after the call, root |-> the returned root]
create_level_knowledge_tree(h, level_moves) ==
    [heap |-> InsertMoves(Append(h, NewRoot), Len(h) + 1, level_moves, 1),
     root |-> Len(h) + 1]

(***************************************************************************)
(* Inputs: moves, positions, statistics and source trees                   *)
(***************************************************************************)
e4 == <<"e","4">>
Nf3 == <<"N","f","3">>
Qxd5 == <<"Q","x","d","5","+">>
Nbxd7 == <<"N","b","x","d","7">>
MoveKeys == <<e4, Nf3, Qxd5, Nbxd7>>

\* The initial position: 14 pieces, both queens, material 78
StartFen == Str(<<"r","n","b","q","k","b","n","r","/","p","p","p","p","p","p","p","p","/","8","/","8","/","8","/","8","/","P","P","P","P","P","P","P","P","/","R","N","B","Q","K","B","N","R"," ","w"," ","K","Q","k","q"," ","-"," ","0"," ","1">>)
\* Queens and a rook each: material 28
MiddleFen == Str(<<"3","q","k","2","r","/","8","/","8","/","8","/","8","/","8","/","8","/","3","Q","K","2","R"," ","w"," ","-"," ","-"," ","0"," ","3","0">>)
\* Bare kings: material 0
KingsFen == Str(<<"4","k","3","/","8","/","8","/","8","/","8","/","8","/","8","/","4","K","3">>)
\* Queens exchanged in the initial position: material 60, 12 pieces, no queen
NoQueensFen == Str(<<"r","n","b","1","k","b","n","r","/","p","p","p","p","p","p","p","p","/","8","/","8","/","8","/","8","/","P","P","P","P","P","P","P","P","/","R","N","B","1","K","B","N","R"," ","w"," ","K","Q","k","q"," ","-"," ","0"," ","4">>)
\* A string whose first field is empty
BlankFen == Str(<<" ","w"," ","K","Q","k","q">>)

\* How a node carries its position: not at all, as 'position', or in 'stats'
NoPos == [where |-> "none", val |-> None]
AtNode(v) == [where |-> "node", val |-> v]
AtStats(v) == [where |-> "stats", val |-> v]

\* A pattern gives the position of a node from its depth (cyclically).
PositionPatterns ==
    { <<NoPos>>,
      <<AtNode(StartFen), NoPos, NoPos>>,
      <<NoPos, AtStats(MiddleFen), NoPos, AtNode(KingsFen)>>,
      <<NoPos, AtNode(Int_(5)), AtNode(Str(<<>>)), AtStats(Int_(0))>>,
      <<AtNode(NoQueensFen), AtNode(BlankFen), AtNode(KingsFen)>> }

NoStats == [has |-> FALSE, stats |-> EmptyDict]
WithStats(st) == [has |-> TRUE, stats |-> st]

\* A pattern gives the stats of a node from its index (cyclically).
StatsPatterns ==
    { <<NoStats>>,
      <<WithStats([rating |-> 1000]),
        WithStats([rating |-> 1400, timesPlayed |-> 20]),
        NoStats,
        WithStats([rating |-> 2600, type |-> <<"C","a","p","t","u","r","e">>]),
        WithStats([rating |-> 1000])>>,
      <<WithStats([rating |-> 400]),
        WithStats([rating |-> 5000, wins |-> 1, losses |-> 1]),
        WithStats([rating |-> 1800, timesPlayed |-> 5, type |-> <<"c","h","e","c","k","+","c","a","p","t","u","r","e">>]),
        WithStats(EmptyDict)>>,
      <<WithStats([timesPlayed |-> 80]),
        WithStats([rating |-> 2000, wins |-> 1, draws |-> 2]),
        WithStats([wins |-> 1])>> }

MaxMoves == 12
Branchings == {1, 2, 3}

Cyclic(pattern, i) == pattern[(i % Len(pattern)) + 1]

\* The tree of n moves in which node 1 is the root and move i is node i + 1,
\* the child of node ((i - 1) \div b) + 1 under the key MoveKeys[i].
ParentOf(node, b) == ((node - 2) \div b) + 1
RECURSIVE DepthOf(_, _)
DepthOf(node, b) == IF node = 1 THEN 0 ELSE DepthOf(ParentOf(node, b), b) + 1

RECURSIVE ChildEntries(_, _, _, _)
ChildEntries(node, n, b, i) ==
    IF i > n THEN <<>>
    ELSE (IF ParentOf(i + 1, b) = node
          THEN <<[key |-> Cyclic(MoveKeys, i - 1), node |-> i + 1]>>
          ELSE <<>>) \o ChildEntries(node, n, b, i + 1)

SourceNode(node, n, b, sp, pp) ==
    LET children == ChildEntries(node, n, b, 1)
        pos == Cyclic(pp, DepthOf(node, b))
        st == Cyclic(sp, node)
        stats == IF pos.where = "stats"
                 THEN [k \in DOMAIN st.stats \cup {"position"} |->
                          IF k = "position" THEN pos.val ELSE st.stats[k]]
                 ELSE st.stats
        hasStats == st.has \/ pos.where = "stats"
        keys == (IF children # <<>> \/ node = 1 THEN {"moves"} ELSE {})
                  \cup (IF hasStats THEN {"stats"} ELSE {})
                  \cup (IF pos.where = "node" THEN {"position"} ELSE {})
    IN  [k \in keys |->
            CASE k = "moves" -> children
              [] k = "stats" -> stats
              [] k = "position" -> pos.val]

SourceTree(n, b, sp, pp) == [node \in 1..(n + 1) |-> SourceNode(node, n, b, sp, pp)]

Root == 1

(***************************************************************************)
(* main(): load, analyze, categorize, save the levels                      *)
(***************************************************************************)
Init ==
    /\ pc = "loaded"
    /\ \E n \in 0..MaxMoves, b \in Branchings, sp \in StatsPatterns,
          pp \in PositionPatterns :
           heap = SourceTree(n, b, sp, pp)
    /\ moves_with_difficulty = <<>>
    /\ difficulty_levels = <<>>
    /\ level = 0
    /\ level_trees = <<>>
    /\ args = <<>>
    /\ result = <<>>

Analyze ==
    /\ pc = "loaded"
    /\ moves_with_difficulty' = analyze_move_difficulty(heap, Root, 0, <<>>, None, <<>>)
    /\ pc' = "analyzed"
    /\ UNCHANGED <<heap, difficulty_levels, level, level_trees, args, result>>

Categorize ==
    /\ pc = "analyzed"
    /\ difficulty_levels' = categorize_moves_by_difficulty(moves_with_difficulty)
    /\ level' = 1
    /\ pc' = "categorized"
    /\ UNCHANGED <<heap, moves_with_difficulty, level_trees, args, result>>

\* save_difficulty_levels, one iteration: an empty level is skipped
SkipLevel ==
    /\ pc = "categorized"
    /\ difficulty_levels[level] = <<>>
    /\ level_trees' = Append(level_trees, 0)
    /\ level' = level + 1
    /\ pc' = IF level = num_levels THEN "saved" ELSE "categorized"
    /\ UNCHANGED <<heap, moves_with_difficulty, difficulty_levels, args, result>>

SaveLevel ==
    /\ pc = "categorized"
    /\ difficulty_levels[level] # <<>>
    /\ LET built == create_level_knowledge_tree(heap, difficulty_levels[level])
       IN  /\ heap' = built.heap
           /\ level_trees' = Append(level_trees, built.root)
    /\ level' = level + 1
    /\ pc' = IF level = num_levels THEN "saved" ELSE "categorized"
    /\ UNCHANGED <<moves_with_difficulty, difficulty_levels, args, result>>

Next == Analyze \/ Categorize \/ SkipLevel \/ SaveLevel

Spec == Init /\ [][Next]_vars

(***************************************************************************)
(* The same pipeline, with the moves of a level handed to                  *)
(* create_level_knowledge_tree in any order                                *)
(***************************************************************************)
\* The orders of a list of n elements: the bijections on 1..n
Orders(n) ==
    {p \in [1..n -> 1..n] : \A i, j \in 1..n : i # j => p[i] # p[j]}

\* save_difficulty_levels, one iteration, the level's moves reordered;
\* args records the list passed to create_level_knowledge_tree
SaveLevelAnyOrder ==
    /\ pc = "categorized"
    /\ difficulty_levels[level] # <<>>
    /\ \E p \in Orders(Len(difficulty_levels[level])) :
           LET level_moves == [i \in 1..Len(difficulty_levels[level]) |->
                                  difficulty_levels[level][p[i]]]
               built == create_level_knowledge_tree(heap, level_moves)
           IN  /\ heap' = built.heap
               /\ level_trees' = Append(level_trees, built.root)
               /\ args' = level_moves
    /\ level' = level + 1
    /\ pc' = IF level = num_levels THEN "saved" ELSE "categorized"
    /\ UNCHANGED <<moves_with_difficulty, difficulty_levels, result>>

NextAnyOrder == Analyze \/ Categorize \/ SkipLevel \/ SaveLevelAnyOrder

SpecAnyOrder == Init /\ [][NextAnyOrder]_vars

(***************************************************************************)
(* The stratifier on lists of scored moves                                 *)
(***************************************************************************)
MaxListLen == 21
DifficultyValues ==
    <<FZero, FLit(1, 4), FLit(24, 125), FMul(FLit(2, 10), FLit(96, 100)), FLit(1, 2), FOne>>

\* The list of n scored moves whose i-th difficulty is the value numbered
\* a * i + b (cyclically): a = 0 gives n ties, the others mix ties and inversions.
ScoredList(n, a, b) ==
    [i \in 1..n |->
        [move |-> Cyclic(MoveKeys, i), path |-> <<>>, depth |-> 0,
         difficulty |-> Cyclic(DifficultyValues, a * i + b), move_data |-> i]]

InitStratifier ==
    /\ pc = "analyzed"
    /\ \E n \in 0..MaxListLen, a \in 0..(Len(DifficultyValues) - 1),
          b \in 0..(Len(DifficultyValues) - 1) :
           moves_with_difficulty = ScoredList(n, a, b)
    /\ heap = <<>>
    /\ difficulty_levels = <<>>
    /\ level = 0
    /\ level_trees = <<>>
    /\ args = <<>>
    /\ result = <<>>

SpecStratifier == InitStratifier /\ [][Categorize]_vars

(***************************************************************************)
(* The scorer on its arguments                                             *)
(***************************************************************************)
MaxDepth == 11

ScorerArgs ==
    [rating : {400, 800, 1200, 2800, 5000},
     times_played : {0, 5, 80},
     win_rate : {FLit(1, 2), FLit(2, 3), FOne},
     depth : {0, 3, MaxDepth},
     has_children : BOOLEAN,
     game_phase : {<<"opening", FZero>>, <<"middlegame", FLit(1, 2)>>,
                   <<"endgame", FLit(1, 2)>>, <<"endgame", FOne>>,
                   <<"unknown", FLit(1, 2)>>},
     position_complexity : {FLit(1, 2), FLit(122, 125)},
     move_sequence : {<<e4>>, <<e4, Nbxd7>>},
     is_capture : BOOLEAN,
     is_check : BOOLEAN]

InitScorer ==
    /\ pc = "call"
    /\ args \in ScorerArgs
    /\ result = <<>>
    /\ heap = <<>>
    /\ moves_with_difficulty = <<>>
    /\ difficulty_levels = <<>>
    /\ level = 0
    /\ level_trees = <<>>

Score ==
    /\ pc = "call"
    /\ result' = calculate_difficulty_score(
                     args.rating, args.times_played, args.win_rate, args.depth,
                     args.has_children, args.game_phase, args.position_complexity,
                     args.move_sequence, args.is_capture, args.is_check)
    /\ pc' = "scored"
    /\ UNCHANGED <<heap, moves_with_difficulty, difficulty_levels, level,
                   level_trees, args>>

SpecScorer == InitScorer /\ [][Score]_vars

(***************************************************************************)
(* determine_game_phase on piece counts                                    *)
(***************************************************************************)
MaxQueens == 5

PieceCountInputs ==
    { [c \in PieceLetters |->
          CASE c = "P" -> wp [] c = "p" -> bp
            [] c = "N" -> wn [] c = "n" -> bn
            [] c = "B" -> wb [] c = "b" -> bb
            [] c = "R" -> wr [] c = "r" -> br
            [] c = "Q" -> wq [] c = "q" -> bq
            [] OTHER -> 1] :
        wp \in {0, 8}, bp \in {0, 8}, wn \in {0, 2}, bn \in {0, 2},
        wb \in {0, 2}, bb \in {0, 2}, wr \in {0, 2}, br \in {0, 2},
        wq \in {0, 1, MaxQueens}, bq \in {0, 1} }

InitPhase ==
    /\ pc = "call"
    /\ args \in PieceCountInputs
    /\ result = <<>>
    /\ heap = <<>>
    /\ moves_with_difficulty = <<>>
    /\ difficulty_levels = <<>>
    /\ level = 0
    /\ level_trees = <<>>

DeterminePhase ==
    /\ pc = "call"
    /\ result' = determine_game_phase(args)
    /\ pc' = "phased"
    /\ UNCHANGED <<heap, moves_with_difficulty, difficulty_levels, level,
                   level_trees, args>>

SpecPhase == InitPhase /\ [][DeterminePhase]_vars

(***************************************************************************)
(* Properties of the stratifier                                            *)
(***************************************************************************)
Sizes(levels) == [lv \in 1..8 |-> Len(levels[lv])]

ConcatLevels(levels) ==
    levels[1] \o levels[2] \o levels[3] \o levels[4]
      \o levels[5] \o levels[6] \o levels[7] \o levels[8]

\* The place of moves[i] in the list sorted ascending by difficulty with ties
\* in input order: behind every smaller move and every equal earlier move.
StableRank(moves, i) ==
    1 + Cardinality({j \in 1..Len(moves) :
                        FLess(moves[j].difficulty, moves[i].difficulty)})
      + Cardinality({j \in 1..(i - 1) :
                        /\ ~FLess(moves[j].difficulty, moves[i].difficulty)
                        /\ ~FLess(moves[i].difficulty, moves[j].difficulty)})

\* C1: the eight levels are contiguous and disjoint: their sizes sum to the
\* input length and their concatenation, level 1 to level 8, is the input
\* sorted ascending by difficulty with equal difficulties in input order, so
\* every move is in exactly one level.
C1_LevelsAreStableSortedPartition ==
    pc = "categorized" =>
        LET all == ConcatLevels(difficulty_levels)
            n == Len(moves_with_difficulty)
        IN  /\ DOMAIN difficulty_levels = 1..8
            /\ Len(all) = n
            /\ \A i \in 1..n :
                   all[StableRank(moves_with_difficulty, i)] = moves_with_difficulty[i]
            /\ \A i \in 1..n, j \in 1..n :
                   i < j => ~FLess(all[j].difficulty, all[i].difficulty)

\* A categorized list with ties, with an inversion, and with all of the
\* levels 1, 4 and 8 populated.
C1_Witness ==
    /\ pc = "categorized"
    /\ difficulty_levels[1] # <<>>
    /\ difficulty_levels[4] # <<>>
    /\ difficulty_levels[8] # <<>>
    /\ \E i \in 1..Len(moves_with_difficulty), j \in 1..Len(moves_with_difficulty) :
           /\ i < j
           /\ moves_with_difficulty[i].difficulty = moves_with_difficulty[j].difficulty
    /\ \E i \in 1..Len(moves_with_difficulty), j \in 1..Len(moves_with_difficulty) :
           /\ i < j
           /\ FLess(moves_with_difficulty[j].difficulty,
                    moves_with_difficulty[i].difficulty)

\* C2: with N moves, level k (k = 1..7) holds floor(p_k * N / 100) moves for
\* the percentages 5, 10, 15, 20, 20, 15, 10, 5, and level 8 holds
\* floor(5 * N / 100) moves plus all N - sum(floors) leftover moves; N = 17
\* gives the sizes 0, 1, 2, 3, 3, 2, 1, 5 and N = 0 gives eight empty levels.
C2_LevelSizes ==
    pc = "categorized" =>
        LET n == Len(moves_with_difficulty)
            p == <<5, 10, 15, 20, 20, 15, 10, 5>>
            floor(k) == (p[k] * n) \div 100
            floors == floor(1) + floor(2) + floor(3) + floor(4)
                        + floor(5) + floor(6) + floor(7) + floor(8)
        IN  /\ \A k \in 1..7 : Len(difficulty_levels[k]) = floor(k)
            /\ Len(difficulty_levels[8]) = floor(8) + (n - floors)
            /\ n = 17 => Sizes(difficulty_levels) = <<0, 1, 2, 3, 3, 2, 1, 5>>
            /\ n = 0 => Sizes(difficulty_levels) = <<0, 0, 0, 0, 0, 0, 0, 0>>

\* Seventeen moves have been categorized, five of them into level 8.
C2_Witness ==
    /\ pc = "categorized"
    /\ Len(moves_with_difficulty) = 17
    /\ Sizes(difficulty_levels) = <<0, 1, 2, 3, 3, 2, 1, 5>>

(***************************************************************************)
(* Properties of the scorer                                                *)
(***************************************************************************)
\* C3: whatever the rating (also below 800 or above 2800) and the other
\* arguments, calculate_difficulty_score returns a value in [0, 1].
C3_ScoreInUnitInterval ==
    pc = "scored" => FLeq(FZero, result) /\ FLeq(result, FOne)

\* Scores have been cut at both ends: one call with a rating above 2800
\* returned 1, and it would have returned more without the upper cut.
C3_Witness ==
    /\ pc = "scored"
    /\ args.rating > 2800
    /\ args.game_phase[1] = "endgame"
    /\ result = FOne

\* The arguments of the scenario of C7
IsMiddlegameScenario ==
    /\ args.rating = 1200
    /\ args.times_played = 0
    /\ args.win_rate = FLit(1, 2)
    /\ args.depth = 0
    /\ ~args.has_children
    /\ args.game_phase = <<"middlegame", FLit(1, 2)>>
    /\ args.position_complexity = FLit(1, 2)
    /\ ~args.is_capture
    /\ ~args.is_check

\* abs(x - y) <= eps
Near(x, y, eps) == FLeq(FAbs(FSub(x, y)), eps)

\* C7 as stated: the scenario rating 1200, never played, win rate 0.5, depth
\* 0, no children, middlegame, complexity 0.5, no capture, no check scores
\* approximately 0.198 (the win-rate factor taken as 0.9).
C7_ScenarioScores0198 ==
    (pc = "scored" /\ IsMiddlegameScenario) => Near(result, FLit(198, 1000), FLit(1, 1000))

\* C7 as amended: the scenario scores approximately 0.22 (to within 1e-9):
\* base 0.2, times 1.1 for the middlegame, times 1.0 for complexity, depth and
\* the win-rate factor.
C7_ScenarioScores022 ==
    (pc = "scored" /\ IsMiddlegameScenario) =>
        Near(result, FLit(22, 100), FLit(1, 1000000000))

\* The scenario has been scored.
C7_Witness ==
    /\ pc = "scored"
    /\ IsMiddlegameScenario
    /\ result = FMul(FLit(2, 10), FLit(11, 10))

(***************************************************************************)
(* Properties of determine_game_phase                                      *)
(***************************************************************************)
\* C8: for every piece-count mapping the phase name is opening, middlegame or
\* endgame and the progress is in [0, 1]; when rule 1 (12 or more pieces and
\* both queens) does not apply and the total material is at least 30, the
\* result is (opening, (40 - total) / 10 clamped to [0, 1]).
C8_PhaseProgressInUnitInterval ==
    pc = "phased" =>
        LET total == WhiteMaterial(args) + BlackMaterial(args)
            pieces == args["N"] + args["B"] + args["R"] + args["Q"]
                    + args["n"] + args["b"] + args["r"] + args["q"]
            rule1 == pieces >= 12 /\ args["Q"] >= 1 /\ args["q"] >= 1
            clamped == FMax(FZero, FMin(FOne, FLit(40 - total, 10)))
        IN  /\ result[1] \in {"opening", "middlegame", "endgame"}
            /\ FLeq(FZero, result[2])
            /\ FLeq(result[2], FOne)
            /\ (~rule1 /\ total >= 30) => result = <<"opening", clamped>>

(***************************************************************************)
(* Properties of the walker                                                *)
(***************************************************************************)
\* The node reached from a node along a path of move keys, 0 if there is none
RECURSIVE NodeAt(_, _, _)
NodeAt(h, node, path) ==
    IF path = <<>> THEN node
    ELSE IF ~HasKey(NodeMoves(h[node]), path[1]) THEN 0
    ELSE NodeAt(h, Lookup(NodeMoves(h[node]), path[1]), Tail(path))

HasPosition(nd) ==
    \/ "position" \in DOMAIN nd
    \/ "stats" \in DOMAIN nd /\ "position" \in DOMAIN nd.stats

\* The position of the last node that has one among the nodes from a node
\* along a path (both ends included), starting from a position found above.
RECURSIVE NearestPosition(_, _, _, _)
NearestPosition(h, node, path, above) ==
    LET here == IF HasPosition(h[node]) THEN OwnPosition(h[node]) ELSE above
    IN  IF path = <<>> THEN here
        ELSE NearestPosition(h, Lookup(NodeMoves(h[node]), path[1]), Tail(path), here)

\* <<game_phase, position_complexity>> recorded in a scored move
FeaturesOf(m) == <<(<<m.game_phase, m.phase_progress>>), m.position_complexity>>

ScoredIndex == 1..Len(moves_with_difficulty)

\* C10: the walk from the root emits exactly one scored move per move of the
\* tree: as many records as count_moves(root), each at its own (path, move),
\* whose path leads from the root to the node holding the move, whose depth
\* is the length of the path and whose move_sequence is the path followed by
\* the move.
C10_WalkerEmitsEveryMoveOnce ==
    pc = "analyzed" =>
        /\ Len(moves_with_difficulty) = count_moves(heap, Root)
        /\ \A i \in ScoredIndex :
               LET m == moves_with_difficulty[i]
                   at == NodeAt(heap, Root, m.path)
               IN  /\ at # 0
                   /\ HasKey(NodeMoves(heap[at]), m.move)
                   /\ Lookup(NodeMoves(heap[at]), m.move) = m.move_data
                   /\ m.depth = Len(m.path)
                   /\ m.move_sequence = Append(m.path, m.move)
        /\ \A i \in ScoredIndex, j \in ScoredIndex :
               i # j => <<moves_with_difficulty[i].path, moves_with_difficulty[i].move>>
                          # <<moves_with_difficulty[j].path, moves_with_difficulty[j].move>>

\* A tree of at least ten moves has been walked, down to depth 2 and with two
\* moves under one node below the root.
C10_Witness ==
    /\ pc = "analyzed"
    /\ Len(moves_with_difficulty) >= 10
    /\ \E i \in ScoredIndex : moves_with_difficulty[i].depth = 2
    /\ \E i \in ScoredIndex, j \in ScoredIndex :
           /\ i # j
           /\ moves_with_difficulty[i].path = moves_with_difficulty[j].path
           /\ moves_with_difficulty[i].depth = 1

\* C6: the moves of a node that has neither 'position' nor stats.position are
\* scored with the phase and complexity of the position of the nearest
\* ancestor that has one, and with the defaults (unknown, 0.5) and 0.5 only
\* when no node from the root down to it has a position.
C6_PositionInheritedFromAncestor ==
    pc = "analyzed" =>
        \A i \in ScoredIndex :
            LET m == moves_with_difficulty[i]
                at == NodeAt(heap, Root, m.path)
            IN  ~HasPosition(heap[at]) =>
                    FeaturesOf(m) = PositionFeatures(NearestPosition(heap, Root, m.path, None))

\* C9: the moves of a node whose effective position (its own, else the
\* nearest ancestor's) is absent, empty or not a string are scored with the
\* phase (unknown, 0.5) and the complexity 0.5.
C9_BadPositionGivesDefaults ==
    pc = "analyzed" =>
        \A i \in ScoredIndex :
            LET m == moves_with_difficulty[i]
                effective == NearestPosition(heap, Root, m.path, None)
            IN  (effective.kind # "str" \/ effective.val = <<>>) =>
                    FeaturesOf(m) = <<(<<"unknown", FLit(1, 2)>>), FLit(1, 2)>>

(***************************************************************************)
(* Properties of the level trees                                           *)
(***************************************************************************)
\* The (path, move) of every entry of every moves mapping below a node
RECURSIVE TreePairs(_, _, _)
TreePairs(h, node, path) ==
    LET entries == NodeMoves(h[node])
    IN  {<<path, entries[i].key>> : i \in 1..Len(entries)}
          \cup UNION {TreePairs(h, entries[i].node, Append(path, entries[i].key)) :
                        i \in 1..Len(entries)}

LevelPairs(level_moves) ==
    {<<level_moves[i].path, level_moves[i].move>> : i \in 1..Len(level_moves)}

RECURSIVE CountLevelTrees(_, _, _)
CountLevelTrees(h, trees, i) ==
    IF i > Len(trees) THEN 0
    ELSE (IF trees[i] = 0 THEN 0 ELSE count_moves(h, trees[i]))
           + CountLevelTrees(h, trees, i + 1)

\* C4: once the eight levels are saved, their trees together count as many
\* moves (every entry of every moves mapping) as the source tree, and each
\* level tree holds exactly the moves of its own level.
C4_LevelTreesHoldExactlyTheirMoves ==
    pc = "saved" =>
        /\ CountLevelTrees(heap, level_trees, 1) = count_moves(heap, Root)
        /\ \A lv \in 1..Len(level_trees) :
               level_trees[lv] # 0 =>
                   TreePairs(heap, level_trees[lv], <<>>) = LevelPairs(difficulty_levels[lv])

\* C5: walking a level's tree again yields scored moves whose (path, move)
\* pairs are exactly those of the level's move list, no more and no fewer.
C5_RewalkYieldsTheLevelsMoves ==
    \A lv \in 1..Len(level_trees) :
        level_trees[lv] # 0 =>
            LET again == analyze_move_difficulty(heap, level_trees[lv], 0, <<>>, None, <<>>)
            IN  /\ Len(again) = Len(difficulty_levels[lv])
                /\ LevelPairs(again) = LevelPairs(difficulty_levels[lv])

(***************************************************************************)
(* Properties of the node objects: insertion order, sharing, the source    *)
(***************************************************************************)
\* The node objects reachable from a node, itself included
RECURSIVE Reach(_, _)
Reach(h, node) ==
    LET entries == NodeMoves(h[node])
    IN  {node} \cup UNION {Reach(h, entries[i].node) : i \in 1..Len(entries)}

\* A node of a level tree is a dict of the source tree (one of the nodes
\* source), or a placeholder
Kind(source, node) ==
    IF node \in source THEN <<"original", node>> ELSE <<"placeholder", 0>>

\* (path, key, kind of the node under the key) of every entry below a node
RECURSIVE TreeContent(_, _, _, _)
TreeContent(h, node, path, source) ==
    LET entries == NodeMoves(h[node])
    IN  {<<path, entries[i].key, Kind(source, entries[i].node)>> : i \in 1..Len(entries)}
          \cup UNION {TreeContent(h, entries[i].node, Append(path, entries[i].key), source) :
                        i \in 1..Len(entries)}

IsPrefix(s, t) == Len(s) <= Len(t) /\ SubSeq(t, 1, Len(s)) = s

\* move_info a lies on the path of move_info b
IsAncestor(a, b) == IsPrefix(Append(a.path, a.move), b.path)

LastTreeBuilt ==
    /\ level_trees # <<>>
    /\ level_trees[Len(level_trees)] # 0

\* C11: whatever the order in which a level's moves are inserted, the level
\* tree has the same content as the one built in the list's own order: the
\* same keys at every path and under each key the same kind of node
\* (placeholder, or the original dict of the move).
C11_TreeContentIndependentOfOrder ==
    \A lv \in 1..Len(level_trees) :
        level_trees[lv] # 0 =>
            LET inListOrder == create_level_knowledge_tree(heap, difficulty_levels[lv])
            IN  TreeContent(heap, level_trees[lv], <<>>, Reach(heap, Root))
                  = TreeContent(inListOrder.heap, inListOrder.root, <<>>,
                                Reach(inListOrder.heap, Root))

\* A level tree was built from a list in which a move comes after one of its
\* descendants, in another order than the level's own
C11_Witness ==
    /\ LastTreeBuilt
    /\ args # difficulty_levels[Len(level_trees)]
    /\ \E i, j \in 1..Len(args) : i < j /\ IsAncestor(args[j], args[i])

\* C12: no node object is reachable from the roots of two different level
\* trees, and the nodes on a scored move's path in its level tree are
\* reachable from no other level tree.
C12_LevelTreesShareNoNodes ==
    \A a, b \in 1..Len(level_trees) :
        (a # b /\ level_trees[a] # 0 /\ level_trees[b] # 0) =>
            /\ Reach(heap, level_trees[a]) \cap Reach(heap, level_trees[b]) = {}
            /\ \A i \in 1..Len(difficulty_levels[a]) :
                   LET m == difficulty_levels[a][i]
                   IN  \A k \in 1..Len(m.path) :
                           NodeAt(heap, level_trees[a], SubSeq(m.path, 1, k))
                               \notin Reach(heap, level_trees[b])

\* The keys of a node's moves, each with its child node
MoveEntries(nd) ==
    LET entries == NodeMoves(nd)
    IN  {<<entries[i].key, entries[i].node>> : i \in 1..Len(entries)}

SameNode(before, after) ==
    /\ DOMAIN before = DOMAIN after
    /\ MoveEntries(before) = MoveEntries(after)
    /\ \A k \in DOMAIN before \ {"moves"} : before[k] = after[k]

\* C13: no step of the pipeline changes a node of the source tree: each keeps
\* its moves keys, its child nodes and its stats.
C13_SourceTreeUnchanged ==
    [][\A node \in Reach(heap, Root) : SameNode(heap[node], heap'[node])]_vars

\* All levels are saved, and the last tree was built from a list in which a
\* move comes before one of its descendants: the descendant's insertion walked
\* through the attached source dict and assigned into it
C13_Witness ==
    /\ pc = "saved"
    /\ LastTreeBuilt
    /\ \E i, j \in 1..Len(args) : i < j /\ IsAncestor(args[i], args[j])
    /\ \E lv \in 1..(Len(level_trees) - 1) : level_trees[lv] # 0

=============================================================================
